---- MODULE Spec2Model ----
(***************************************************************************)
(* The URL-keyed file cache of the desktop shell                           *)
(* (desktop/src-tauri/src/image_cache.rs): cache-key derivation, the       *)
(* resolve command get_cached_file_path, clear_image_cache and             *)
(* get_cache_size, over a model of the cache directory on disk.            *)
(*                                                                         *)
(* Strings the code inspects (URLs) are sequences of one-character         *)
(* strings, so that starts_with, split and rsplit are computed.            *)
(* Every command is one action: the commands are modelled as the caller    *)
(* sees them when they are issued one after the other.  The outcome of     *)
(* each call into the operating system or the network (create_dir_all,     *)
(* reqwest::get, fs::write, remove_dir_all, read_dir, metadata) is an      *)
(* input of the action, drawn with \E.                                     *)
(***************************************************************************)
EXTENDS Integers, Sequences, FiniteSets, TLC

\* Longest response body (bytes) a fetch returns in the model.
MaxBodyLen == 1

-----------------------------------------------------------------------------
(* Strings *)

HttpPrefix == <<"h","t","t","p",":","/","/">>
HttpsPrefix == <<"h","t","t","p","s",":","/","/">>

\* http://x/a.JPG?v=1
UrlJpgQuery == <<"h","t","t","p",":","/","/","x","/","a",".","J","P","G","?","v","=","1">>
\* https://x/noext
UrlNoExt == <<"h","t","t","p","s",":","/","/","x","/","n","o","e","x","t">>
\* file:///p
UrlFile == <<"f","i","l","e",":","/","/","/","p">>
\* /abs
UrlAbs == <<"/","a","b","s">>
\* HTTP://x/a.png  (upper-case scheme: starts_with is case-sensitive)
UrlUpperScheme == <<"H","T","T","P",":","/","/","x","/","a",".","p","n","g">>

\* The URLs the commands are called with.
Urls == {UrlJpgQuery, UrlNoExt, UrlFile, UrlAbs, UrlUpperScheme}

\* str::starts_with
StartsWith(s, p) == Len(s) >= Len(p) /\ SubSeq(s, 1, Len(p)) = p

\* Positions of character c in s.
Positions(s, c) == {i \in 1..Len(s) : s[i] = c}

Min(S) == CHOOSE x \in S : \A y \in S : x <= y
Max(S) == CHOOSE x \in S : \A y \in S : x >= y

\* s.split(c).next(): the part before the first c (all of s when c is absent).
SplitFirst(s, c) ==
  IF Positions(s, c) = {} THEN s ELSE SubSeq(s, 1, Min(Positions(s, c)) - 1)

\* s.rsplit(c).next(): the part after the last c (all of s when c is absent).
RSplitFirst(s, c) ==
  IF Positions(s, c) = {} THEN s ELSE SubSeq(s, Max(Positions(s, c)) + 1, Len(s))

\* char::to_lowercase on the ASCII letters.
LowerChar(c) ==
  CASE
         c = "A" -> "a"
      [] c = "B" -> "b"
      [] c = "C" -> "c"
      [] c = "D" -> "d"
      [] c = "E" -> "e"
      [] c = "F" -> "f"
      [] c = "G" -> "g"
      [] c = "H" -> "h"
      [] c = "I" -> "i"
      [] c = "J" -> "j"
      [] c = "K" -> "k"
      [] c = "L" -> "l"
      [] c = "M" -> "m"
      [] c = "N" -> "n"
      [] c = "O" -> "o"
      [] c = "P" -> "p"
      [] c = "Q" -> "q"
      [] c = "R" -> "r"
      [] c = "S" -> "s"
      [] c = "T" -> "t"
      [] c = "U" -> "u"
      [] c = "V" -> "v"
      [] c = "W" -> "w"
      [] c = "X" -> "x"
      [] c = "Y" -> "y"
      [] c = "Z" -> "z"
      [] OTHER -> c

\* str::to_lowercase
ToLowercase(s) == [i \in 1..Len(s) |-> LowerChar(s[i])]

\* IsHttpUrl with the scheme compared without regard to case.
IsHttpUrl_IgnoresCase(url) ==
  StartsWith(ToLowercase(url), HttpPrefix) \/ StartsWith(ToLowercase(url), HttpsPrefix)

\* The guard of get_cached_file_path, line 148, negated.
IsHttpUrl(url) == StartsWith(url, HttpPrefix) \/ StartsWith(url, HttpsPrefix)

\* The match of lines 41-105: Some(ext) as the extension, None as "".
MatchExtension(ext_lower) ==
  CASE
         ext_lower = <<"j","p","g">> -> "jpg"
      [] ext_lower = <<"j","p","e","g">> -> "jpg"
      [] ext_lower = <<"p","n","g">> -> "png"
      [] ext_lower = <<"g","i","f">> -> "gif"
      [] ext_lower = <<"w","e","b","p">> -> "webp"
      [] ext_lower = <<"b","m","p">> -> "bmp"
      [] ext_lower = <<"s","v","g">> -> "svg"
      [] ext_lower = <<"i","c","o">> -> "ico"
      [] ext_lower = <<"m","p","4">> -> "mp4"
      [] ext_lower = <<"a","v","i">> -> "avi"
      [] ext_lower = <<"m","o","v">> -> "mov"
      [] ext_lower = <<"m","k","v">> -> "mkv"
      [] ext_lower = <<"w","e","b","m">> -> "webm"
      [] ext_lower = <<"f","l","v">> -> "flv"
      [] ext_lower = <<"w","m","v">> -> "wmv"
      [] ext_lower = <<"m","4","v">> -> "m4v"
      [] ext_lower = <<"m","p","3">> -> "mp3"
      [] ext_lower = <<"w","a","v">> -> "wav"
      [] ext_lower = <<"o","g","g">> -> "ogg"
      [] ext_lower = <<"f","l","a","c">> -> "flac"
      [] ext_lower = <<"m","4","a">> -> "m4a"
      [] ext_lower = <<"a","a","c">> -> "aac"
      [] ext_lower = <<"w","m","a">> -> "wma"
      [] ext_lower = <<"p","d","f">> -> "pdf"
      [] ext_lower = <<"t","x","t">> -> "txt"
      [] ext_lower = <<"d","o","c">> -> "doc"
      [] ext_lower = <<"d","o","c","x">> -> "docx"
      [] ext_lower = <<"x","l","s">> -> "xls"
      [] ext_lower = <<"x","l","s","x">> -> "xlsx"
      [] ext_lower = <<"p","p","t">> -> "ppt"
      [] ext_lower = <<"p","p","t","x">> -> "pptx"
      [] ext_lower = <<"c","s","v">> -> "csv"
      [] ext_lower = <<"j","s","o","n">> -> "json"
      [] ext_lower = <<"x","m","l">> -> "xml"
      [] ext_lower = <<"z","i","p">> -> "zip"
      [] ext_lower = <<"r","a","r">> -> "rar"
      [] ext_lower = <<"7","z">> -> "7z"
      [] ext_lower = <<"t","a","r">> -> "tar"
      [] ext_lower = <<"g","z">> -> "gz"
      [] ext_lower = <<"j","s">> -> "js"
      [] ext_lower = <<"t","s">> -> "ts"
      [] ext_lower = <<"j","s","x">> -> "jsx"
      [] ext_lower = <<"t","s","x">> -> "tsx"
      [] ext_lower = <<"p","y">> -> "py"
      [] ext_lower = <<"j","a","v","a">> -> "java"
      [] ext_lower = <<"c","p","p">> -> "cpp"
      [] ext_lower = <<"c">> -> "c"
      [] ext_lower = <<"g","o">> -> "go"
      [] ext_lower = <<"r","s">> -> "rs"
      [] ext_lower = <<"h","t","m","l">> -> "html"
      [] ext_lower = <<"c","s","s">> -> "css"
      [] OTHER -> ""

\* Lines 31-107: the extension of the cache file name.
Extension(url) ==
  LET url_without_query == SplitFirst(url, "?")
      filename == RSplitFirst(url_without_query, "/")
      ext == RSplitFirst(filename, ".")
      matched == MatchExtension(ToLowercase(ext))
  IN  IF matched = "" THEN "bin" ELSE matched

\* SHA-256 of the URL bytes, lines 26-28.  The digest is not computed: it is
\* a value that determines, and is determined by, the bytes hashed (the
\* function is taken to be collision-free on the URLs of the model).
Sha256(bytes) == [sha256 |-> bytes]

\* get_cache_filename hashing the URL without its query string.
get_cache_filename_HashesWithoutQuery(url) ==
  [digest |-> Sha256(SplitFirst(url, "?")), ext |-> Extension(url)]

\* get_cache_filename: format!("{:x}.{}", result, extension).
get_cache_filename(url) == [digest |-> Sha256(url), ext |-> Extension(url)]

\* cache_dir.join(&filename), line 154.
CacheDirName == "app_cache_dir/images"
JoinPath(filename) == [dir |-> CacheDirName, file |-> filename]

-----------------------------------------------------------------------------
(* The cache directory on disk, and what the commands return *)

VARIABLES
  rootExists,  \* the directory <app cache dir>/images exists
  files,       \* the regular files directly inside it: file name -> bytes
  subdirs,     \* the subdirectories inside it (none is made by the commands)
  pathUtf8,    \* whether the cache directory's path is valid UTF-8
  last,        \* the last command invoked: its input, the outcome of its
               \* system calls, the calls it made and what it returned
  prev,        \* the command invoked before it, and whether it returned Ok
  procs,       \* the commands in flight when commands run concurrently:
               \* for each caller, the command, its position and its locals
  apiMem,      \* GLOBAL_API_CONFIG of lib.rs: the API configuration in memory
  apiDisk      \* api_config.json in the application data directory

vars == <<rootExists, files, subdirs, pathUtf8, last, prev, procs, apiMem, apiDisk>>

Bytes == {1, 2}
Bodies == UNION {[1..n -> Bytes] : n \in 0..MaxBodyLen}
SubdirNames == {"thumbs"}

NoFiles == [k \in {} |-> <<>>]

\* The file system state the commands read and write.
FS == [root |-> rootExists, files |-> files, subdirs |-> subdirs]

\* Result<T, String>
Ok(v) == [ok |-> TRUE, val |-> v]
Err(e) == [ok |-> FALSE, err |-> e]

\* What a String returned by get_cached_file_path holds.
UrlText(url) == [url |-> url]
PathText(path) == [path |-> path]

\* fs::create_dir_all on the cache directory: succeeds when the directory
\* is there already; otherwise the environment decides (mk).
create_dir_all(fs, mk) ==
  IF fs.root THEN [ok |-> TRUE, fs |-> fs]
  ELSE IF mk THEN [ok |-> TRUE, fs |-> [root |-> TRUE, files |-> NoFiles, subdirs |-> {}]]
  ELSE [ok |-> FALSE, fs |-> fs]

\* get_cache_dir, lines 10-22: resolves the path and creates the directory.
get_cache_dir(fs, mk) ==
  LET c == create_dir_all(fs, mk)
  IN  IF c.ok THEN [ok |-> TRUE, err |-> "", fs |-> c.fs]
      ELSE [ok |-> FALSE, err |-> "create_cache_dir_failed", fs |-> c.fs]

\* FileExists testing a path no file is ever written to (the URL joined to
\* the directory in place of the file name).
FileExists_WrongPath(fs, name) == fs.root /\ JoinPath(name) \in DOMAIN fs.files

\* Path::exists on a file of the cache directory.
FileExists(fs, name) == fs.root /\ name \in DOMAIN fs.files

\* Path::to_str on a cache path.
PathToStr(path, utf8) ==
  IF utf8 THEN Ok(PathText(path)) ELSE Err("path_to_str_failed")

\* fs::write(path, bytes) = File::create, then write_all.  wr is the number
\* of bytes written before the write stops: -1 when the file cannot be
\* created, Len(bytes) when the write completes, less when it fails midway
\* (the created file stays, holding what was written).
fs_write(fs, name, bytes, wr) ==
  IF ~fs.root \/ wr < 0 THEN [ok |-> FALSE, fs |-> fs]
  ELSE IF wr < Len(bytes)
    THEN [ok |-> FALSE,
          fs |-> [fs EXCEPT !.files = (name :> SubSeq(bytes, 1, wr)) @@ fs.files]]
    ELSE [ok |-> TRUE,
          fs |-> [fs EXCEPT !.files = (name :> bytes) @@ fs.files]]

\* One call into the operating system or the network, with its result
\* (for exists: what it returned; for the others: whether it succeeded).
Call(name, res) == [call |-> name, res |-> res]

\* StatusCode::is_success
IsSuccess(status) == status >= 200 /\ status < 300

\* What reqwest::get(url) and response.bytes() can yield: a transport
\* error, a response with a status, a body that cannot be read, a body.
NoResponse == [sent |-> FALSE, status |-> 0, read |-> FALSE, body |-> <<>>]
Responses ==
  {NoResponse,
   [sent |-> TRUE, status |-> 404, read |-> TRUE, body |-> <<>>],
   [sent |-> TRUE, status |-> 200, read |-> FALSE, body |-> <<>>]}
  \cup [sent : {TRUE}, status : {200}, read : {TRUE}, body : Bodies]

\* The outcomes of create_dir_all the environment can produce.
MkOutcomes(fs) == IF fs.root THEN {TRUE} ELSE BOOLEAN

\* The outcomes of fs::write: writing no bytes cannot stop midway.
WriteOutcomes(bytes) == {-1} \cup 0..Len(bytes)

\* The file name and the scheme test of each URL of the model.
CacheFilenameOf == [u \in Urls |-> get_cache_filename(u)]
IsHttpOf == [u \in Urls |-> IsHttpUrl(u)]

\* download_and_cache testing the status after the body has been written.
download_and_cache_ChecksStatusLast(fs, url, name, resp, wr) ==
  IF ~resp.sent
    THEN [ok |-> FALSE, fs |-> fs, trace |-> <<Call("GET", FALSE)>>,
          fetch |-> "transport_error", body |-> <<>>]
  ELSE IF ~resp.read
    THEN [ok |-> FALSE, fs |-> fs,
          trace |-> <<Call("GET", TRUE), Call("read_body", FALSE)>>,
          fetch |-> "body_error", body |-> <<>>]
  ELSE LET w == fs_write(fs, name, resp.body, wr)
       IN  [ok |-> w.ok /\ IsSuccess(resp.status), fs |-> w.fs,
            trace |-> <<Call("GET", TRUE), Call("read_body", TRUE),
                        Call("write", w.ok)>>,
            fetch |-> IF IsSuccess(resp.status) THEN "ok" ELSE "http_status",
            body |-> resp.body]

\* download_and_cache repeating the GET once after a transport error.
download_and_cache_RetriesGet(fs, url, name, resp, wr) ==
  IF ~resp.sent
    THEN [ok |-> FALSE, fs |-> fs,
          trace |-> <<Call("GET", FALSE), Call("GET", FALSE)>>,
          fetch |-> "transport_error", body |-> <<>>]
  ELSE IF ~IsSuccess(resp.status)
    THEN [ok |-> FALSE, fs |-> fs, trace |-> <<Call("GET", TRUE)>>,
          fetch |-> "http_status", body |-> <<>>]
  ELSE IF ~resp.read
    THEN [ok |-> FALSE, fs |-> fs,
          trace |-> <<Call("GET", TRUE), Call("read_body", FALSE)>>,
          fetch |-> "body_error", body |-> <<>>]
  ELSE LET w == fs_write(fs, name, resp.body, wr)
       IN  [ok |-> w.ok, fs |-> w.fs,
            trace |-> <<Call("GET", TRUE), Call("read_body", TRUE),
                        Call("write", w.ok)>>,
            fetch |-> "ok", body |-> resp.body]

\* download_and_cache, lines 113-138.
download_and_cache(fs, url, name, resp, wr) ==
  IF ~resp.sent
    THEN [ok |-> FALSE, fs |-> fs, trace |-> <<Call("GET", FALSE)>>,
          fetch |-> "transport_error", body |-> <<>>]
  ELSE IF ~IsSuccess(resp.status)
    THEN [ok |-> FALSE, fs |-> fs, trace |-> <<Call("GET", TRUE)>>,
          fetch |-> "http_status", body |-> <<>>]
  ELSE IF ~resp.read
    THEN [ok |-> FALSE, fs |-> fs,
          trace |-> <<Call("GET", TRUE), Call("read_body", FALSE)>>,
          fetch |-> "body_error", body |-> <<>>]
  ELSE LET w == fs_write(fs, name, resp.body, wr)
       IN  [ok |-> w.ok, fs |-> w.fs,
            trace |-> <<Call("GET", TRUE), Call("read_body", TRUE),
                        Call("write", w.ok)>>,
            fetch |-> "ok", body |-> resp.body]

\* DownloadResult handing the failure of download_and_cache to the caller.
DownloadResult_PropagatesError(dl, cache_path, utf8, url) ==
  IF dl.ok THEN PathToStr(cache_path, utf8) ELSE Err("download_failed")

\* The match of lines 167-177 on the result of download_and_cache.
DownloadResult(dl, cache_path, utf8, url) ==
  IF dl.ok THEN PathToStr(cache_path, utf8) ELSE Ok(UrlText(url))

\* get_cached_file_path, lines 146-178.
resolve(fs, utf8, url, mk, resp, wr) ==
  IF ~IsHttpOf[url]
    THEN [ret |-> Ok(UrlText(url)), fs |-> fs, trace |-> <<>>,
          fetch |-> "none", body |-> <<>>]
    ELSE
      LET d == get_cache_dir(fs, mk)
          filename == CacheFilenameOf[url]
          cache_path == JoinPath(filename)
      IN  IF ~d.ok
            THEN [ret |-> Err(d.err), fs |-> d.fs,
                  trace |-> <<Call("create_dir_all", FALSE)>>,
                  fetch |-> "none", body |-> <<>>]
          ELSE IF FileExists(d.fs, filename)
            THEN [ret |-> PathToStr(cache_path, utf8), fs |-> d.fs,
                  trace |-> <<Call("create_dir_all", TRUE), Call("exists", TRUE)>>,
                  fetch |-> "none", body |-> <<>>]
          ELSE
            LET dl == download_and_cache(d.fs, url, filename, resp, wr)
            IN  [ret |-> DownloadResult(dl, cache_path, utf8, url),
                 fs |-> dl.fs,
                 trace |-> <<Call("create_dir_all", TRUE), Call("exists", FALSE)>>
                           \o dl.trace,
                 fetch |-> dl.fetch, body |-> dl.body]

\* The outcomes of fs::remove_dir_all the environment can produce: it removes
\* everything, or it fails having removed some entries and kept the others
\* (keepFiles, keepDirs) and the directory itself.
RmOutcomes(fs) ==
  {[ok |-> TRUE, keepFiles |-> {}, keepDirs |-> {}]}
  \cup [ok : {FALSE}, keepFiles : SUBSET (DOMAIN fs.files), keepDirs : SUBSET fs.subdirs]

\* remove_dir_all removing the regular files only and reporting success.
remove_dir_all_FilesOnly(fs, rm) ==
  IF rm.ok
    THEN [ok |-> TRUE,
          fs |-> [root |-> fs.subdirs # {}, files |-> NoFiles, subdirs |-> fs.subdirs]]
    ELSE [ok |-> FALSE,
          fs |-> [root |-> fs.root,
                  files |-> [k \in rm.keepFiles |-> fs.files[k]],
                  subdirs |-> rm.keepDirs]]

\* fs::remove_dir_all on the cache directory.
remove_dir_all(fs, rm) ==
  IF rm.ok
    THEN [ok |-> TRUE, fs |-> [root |-> FALSE, files |-> NoFiles, subdirs |-> {}]]
    ELSE [ok |-> FALSE,
          fs |-> [root |-> fs.root,
                  files |-> [k \in rm.keepFiles |-> fs.files[k]],
                  subdirs |-> rm.keepDirs]]

\* clear without the re-creation of line 195.
clear_NoRecreate(fs, mk, rm, mk2) ==
  LET d == get_cache_dir(fs, mk)
  IN  IF ~d.ok
        THEN [ret |-> Err(d.err), fs |-> d.fs,
              trace |-> <<Call("create_dir_all", FALSE)>>]
      ELSE IF d.fs.root
        THEN
          LET r == remove_dir_all(d.fs, rm)
          IN  [ret |-> IF r.ok THEN Ok("unit") ELSE Err("remove_failed"),
               fs |-> r.fs,
               trace |-> <<Call("create_dir_all", TRUE), Call("exists", TRUE),
                           Call("remove_dir_all", r.ok)>>]
      ELSE [ret |-> Ok("unit"), fs |-> d.fs,
            trace |-> <<Call("create_dir_all", TRUE), Call("exists", FALSE)>>]

\* clear dropping the result of remove_dir_all (no ? on line 192).
clear_IgnoresRemoveError(fs, mk, rm, mk2) ==
  LET d == get_cache_dir(fs, mk)
  IN  IF ~d.ok
        THEN [ret |-> Err(d.err), fs |-> d.fs,
              trace |-> <<Call("create_dir_all", FALSE)>>]
      ELSE IF d.fs.root
        THEN
          LET r == remove_dir_all(d.fs, rm)
              c == create_dir_all(r.fs, mk2)
          IN  [ret |-> IF c.ok THEN Ok("unit") ELSE Err("create_cache_dir_failed"),
               fs |-> c.fs,
               trace |-> <<Call("create_dir_all", TRUE), Call("exists", TRUE),
                           Call("remove_dir_all", r.ok),
                           Call("create_dir_all", c.ok)>>]
      ELSE [ret |-> Ok("unit"), fs |-> d.fs,
            trace |-> <<Call("create_dir_all", TRUE), Call("exists", FALSE)>>]

\* clear_image_cache, lines 188-201.
clear(fs, mk, rm, mk2) ==
  LET d == get_cache_dir(fs, mk)
  IN  IF ~d.ok
        THEN [ret |-> Err(d.err), fs |-> d.fs,
              trace |-> <<Call("create_dir_all", FALSE)>>]
      ELSE IF d.fs.root
        THEN
          LET r == remove_dir_all(d.fs, rm)
          IN  IF ~r.ok
                THEN [ret |-> Err("remove_failed"), fs |-> r.fs,
                      trace |-> <<Call("create_dir_all", TRUE), Call("exists", TRUE),
                                  Call("remove_dir_all", FALSE)>>]
                ELSE
                  LET c == create_dir_all(r.fs, mk2)
                  IN  [ret |-> IF c.ok THEN Ok("unit")
                                       ELSE Err("create_cache_dir_failed"),
                       fs |-> c.fs,
                       trace |-> <<Call("create_dir_all", TRUE), Call("exists", TRUE),
                                   Call("remove_dir_all", TRUE),
                                   Call("create_dir_all", c.ok)>>]
      ELSE [ret |-> Ok("unit"), fs |-> d.fs,
            trace |-> <<Call("create_dir_all", TRUE), Call("exists", FALSE)>>]

\* The entries fs::read_dir yields for the cache directory, each with the
\* metadata entry.metadata() reads: the files with their length, the
\* subdirectories (is_file false) with the length of the directory node.
DirEntries(fs) ==
  {[id |-> <<"file", k>>, is_file |-> TRUE, len |-> Len(fs.files[k])] : k \in DOMAIN fs.files}
  \cup {[id |-> <<"dir", d>>, is_file |-> FALSE, len |-> 4096] : d \in fs.subdirs}

\* EntrySize without the is_file test of line 217.
EntrySize_CountsDirectories(e, unreadable) ==
  IF e \notin unreadable THEN e.len ELSE 0

\* Lines 216-220: what one directory entry adds to total_size; unreadable
\* holds the entries whose metadata cannot be read.
EntrySize(e, unreadable) ==
  IF e \notin unreadable /\ e.is_file THEN e.len ELSE 0

\* The loop of lines 215-221 over a set of entries.
RECURSIVE SumSizes(_, _)
SumSizes(entries, unreadable) ==
  IF entries = {} THEN 0
  ELSE LET e == CHOOSE x \in entries : TRUE
       IN  SumSizes(entries \ {e}, unreadable) + EntrySize(e, unreadable)

\* get_cache_size, lines 205-225.  rd: whether read_dir succeeds.
size(fs, mk, rd, unreadable) ==
  LET d == get_cache_dir(fs, mk)
  IN  IF ~d.ok
        THEN [ret |-> Err(d.err), fs |-> d.fs,
              trace |-> <<Call("create_dir_all", FALSE)>>]
      ELSE IF ~d.fs.root
        THEN [ret |-> Ok(0), fs |-> d.fs,
              trace |-> <<Call("create_dir_all", TRUE), Call("exists", FALSE)>>]
      ELSE [ret |-> Ok(IF rd THEN SumSizes(DirEntries(d.fs), unreadable) ELSE 0),
            fs |-> d.fs,
            trace |-> <<Call("create_dir_all", TRUE), Call("exists", TRUE),
                        Call("read_dir", rd)>>]

\* The responses to draw for a call of get_cached_file_path: all of them when
\* the call reaches the fetch (an http(s) URL, the directory there, no file
\* cached), and one, which is not consulted, when it does not.
FetchInputs(fs, url, mk) ==
  LET d == get_cache_dir(fs, mk)
  IN  IF IsHttpOf[url] /\ d.ok /\ ~(CacheFilenameOf[url] \in DOMAIN d.fs.files)
        THEN Responses
        ELSE {NoResponse}

\* The sets of unreadable entries to draw for a call of get_cache_size: every
\* set of entries when the call lists the directory, none when it does not.
MetadataInputs(fs, mk, rd) ==
  LET d == get_cache_dir(fs, mk)
  IN  IF d.ok /\ rd THEN SUBSET DirEntries(d.fs) ELSE {{}}

\* The callers of the commands when commands run concurrently.
Procs == {1, 2}

\* A caller with no command in flight.
IdleProc ==
  [op |-> "none", pc |-> "idle", url |-> <<>>, body |-> <<>>, seen |-> <<>>,
   gets |-> 0, ret |-> Ok("none")]

\* The value GLOBAL_API_CONFIG is initialised with, lib.rs lines 15-23.
DefaultApiConfig ==
  [base_url |-> <<>>, token |-> "", device_id |-> "desktop_host",
   device_name |-> "host", is_configured |-> FALSE]

\* No api_config.json on disk.
NoConfigFile == [kind |-> "absent"]

Init ==
  /\ procs = [p \in Procs |-> IdleProc]
  /\ apiMem = DefaultApiConfig
  /\ apiDisk = NoConfigFile
  /\ rootExists \in BOOLEAN
  /\ files = NoFiles
  /\ subdirs \in (IF rootExists THEN SUBSET SubdirNames ELSE {{}})
  /\ pathUtf8 \in BOOLEAN
  /\ last = [op |-> "none", url |-> <<>>, ret |-> Ok("none"), trace |-> <<>>,
             fetch |-> "none", body |-> <<>>, unreadable |-> {}]
  /\ prev = [op |-> "none", ok |-> TRUE]

\* The command get_cached_file_path(url).
get_cached_file_path ==
  \E url \in Urls, mk \in MkOutcomes(FS) :
    \E resp \in FetchInputs(FS, url, mk) :
      \E wr \in WriteOutcomes(resp.body) :
        LET r == resolve(FS, pathUtf8, url, mk, resp, wr)
        IN  /\ rootExists' = r.fs.root
            /\ files' = r.fs.files
            /\ subdirs' = r.fs.subdirs
            /\ last' = [op |-> "get_cached_file_path", url |-> url, ret |-> r.ret,
                        trace |-> r.trace, fetch |-> r.fetch, body |-> r.body,
                        unreadable |-> {}]
            /\ prev' = [op |-> last.op, ok |-> last.ret.ok]
            /\ UNCHANGED <<pathUtf8, procs, apiMem, apiDisk>>

\* The command clear_image_cache().
clear_image_cache ==
  \E mk \in MkOutcomes(FS), rm \in RmOutcomes(FS), mk2 \in BOOLEAN :
    LET r == clear(FS, mk, rm, mk2)
    IN  /\ rootExists' = r.fs.root
        /\ files' = r.fs.files
        /\ subdirs' = r.fs.subdirs
        /\ last' = [op |-> "clear_image_cache", url |-> <<>>, ret |-> r.ret,
                    trace |-> r.trace, fetch |-> "none", body |-> <<>>,
                    unreadable |-> {}]
        /\ prev' = [op |-> last.op, ok |-> last.ret.ok]
        /\ UNCHANGED <<pathUtf8, procs, apiMem, apiDisk>>

\* The command get_cache_size().
get_cache_size ==
  \E mk \in MkOutcomes(FS), rd \in BOOLEAN :
    \E unreadable \in MetadataInputs(FS, mk, rd) :
      LET r == size(FS, mk, rd, unreadable)
      IN  /\ rootExists' = r.fs.root
          /\ files' = r.fs.files
          /\ subdirs' = r.fs.subdirs
          /\ last' = [op |-> "get_cache_size", url |-> <<>>, ret |-> r.ret,
                      trace |-> r.trace, fetch |-> "none", body |-> <<>>,
                      unreadable |-> unreadable]
          /\ prev' = [op |-> last.op, ok |-> last.ret.ok]
          /\ UNCHANGED <<pathUtf8, procs, apiMem, apiDisk>>

Next ==
  \/ get_cached_file_path
  \/ clear_image_cache
  \/ get_cache_size

Spec == Init /\ [][Next]_vars

-----------------------------------------------------------------------------
(* Key derivation on its own: get_cache_filename applied to a family of URLs *)

\* http://x/
KeyBase == <<"h","t","t","p",":","/","/","x","/">>
\* Leading path segments: none, or "d.png/".
KeyDirs == {<<>>, <<"d",".","p","n","g","/">>}
\* Names of the final path segment: "a", "png", "noext".
KeyNames == {<<"a">>, <<"p","n","g">>, <<"n","o","e","x","t">>}
\* Its suffixes: none, ".JPG", ".jpeg", ".unknownext", ".tar.gz", ".".
KeySuffixes == {<<>>, <<".","J","P","G">>, <<".","j","p","e","g">>, <<".","u","n","k","n","o","w","n","e","x","t">>, <<".","t","a","r",".","g","z">>, <<".">>}
\* Query strings: none, "?x=1", "?f=/b.gif".
KeyQueries == {<<>>, <<"?","x","=","1">>, <<"?","f","=","/","b",".","g","i","f">>}

\* The URLs get_cache_filename is applied to.
KeyUrls ==
  {KeyBase \o d \o n \o x \o q :
     d \in KeyDirs, n \in KeyNames, x \in KeySuffixes, q \in KeyQueries}

\* A call of get_cache_filename(url), lines 25-110.
derive ==
  \E url \in KeyUrls :
    /\ last' = [op |-> "get_cache_filename", url |-> url,
                ret |-> Ok(get_cache_filename(url)), trace |-> <<>>,
                fetch |-> "none", body |-> <<>>, unreadable |-> {}]
    /\ prev' = [op |-> last.op, ok |-> last.ret.ok]
    /\ UNCHANGED <<rootExists, files, subdirs, pathUtf8, procs, apiMem, apiDisk>>

NextKey == derive

SpecKey == Init /\ [][NextKey]_vars

-----------------------------------------------------------------------------
(* The API configuration of lib.rs: a guarded singleton and its JSON file *)

\* str::trim_end_matches: the pattern is removed from the end repeatedly.
RECURSIVE TrimEndMatches(_, _)
TrimEndMatches(s, pat) ==
  IF Len(pat) > 0 /\ Len(s) >= Len(pat)
       /\ SubSeq(s, Len(s) - Len(pat) + 1, Len(s)) = pat
    THEN TrimEndMatches(SubSeq(s, 1, Len(s) - Len(pat)), pat)
    ELSE s

ApiSuffix == <<"/","a","p","i","/","v","1">>

\* lines 142-147: the base url with one "/api/v1" at its end.
NormalizeBaseUrl(api_url) ==
  TrimEndMatches(TrimEndMatches(api_url, <<"/">>), ApiSuffix) \o ApiSuffix

\* The api_url arguments: "http://h", "http://h/", "http://h/api/v1/",
\* "http://h/api/v1/api/v1" and "http://k//".
ApiUrls == {<<"h","t","t","p",":","/","/","h">>, <<"h","t","t","p",":","/","/","h","/">>, <<"h","t","t","p",":","/","/","h","/","a","p","i","/","v","1","/">>, <<"h","t","t","p",":","/","/","h","/","a","p","i","/","v","1","/","a","p","i","/","v","1">>, <<"h","t","t","p",":","/","/","k","/","/">>}
Tokens == {"t1", "t2"}

\* Outcomes of config_path (app_data_dir and create_dir_all, lines 38-45),
\* of fs::write (line 74) and of fs::remove_file (line 83).
PathOutcomes == {"ok", "err"}
ConfigWriteOutcomes == {"ok", "err_create", "err_partial"}
RemoveOutcomes == {"ok", "err"}

ConfigFile(config) == [kind |-> "config", config |-> config]
\* A file whose content does not parse, left by a write that failed midway.
CorruptFile == [kind |-> "corrupt"]

\* ApiConfig::save_to_disk, lines 69-78.
save_to_disk(config, disk, cp, wr) ==
  IF cp = "err" THEN [disk |-> disk, ret |-> Err("config_path")]
  ELSE IF wr = "ok" THEN [disk |-> ConfigFile(config), ret |-> Ok("unit")]
  ELSE IF wr = "err_create" THEN [disk |-> disk, ret |-> Err("write")]
  ELSE [disk |-> CorruptFile, ret |-> Err("write")]

\* ApiConfig::delete_from_disk, lines 80-88.
delete_from_disk(disk, cp, rm) ==
  IF cp = "err" THEN [disk |-> disk, ret |-> Err("config_path")]
  ELSE IF disk.kind = "absent" THEN [disk |-> disk, ret |-> Ok("unit")]
  ELSE IF rm = "ok" THEN [disk |-> NoConfigFile, ret |-> Ok("unit")]
  ELSE [disk |-> disk, ret |-> Err("remove")]

\* ApiConfig::load_from_disk, lines 53-67.
load_from_disk(disk, cp, readable) ==
  IF cp = "ok" /\ disk.kind = "config" /\ readable
    THEN [some |-> TRUE, val |-> disk.config]
    ELSE [some |-> FALSE]

ConfigCall(op, arg, ret) ==
  [op |-> op, url |-> arg, ret |-> ret, trace |-> <<>>, fetch |-> "none",
   body |-> <<>>, unreadable |-> {}]

\* set_api_config, lines 130-162: the singleton is updated, then saved.
set_api_config ==
  \E api_url \in ApiUrls, token \in Tokens,
     cp \in PathOutcomes, wr \in ConfigWriteOutcomes :
    LET config == [apiMem EXCEPT !.base_url = NormalizeBaseUrl(api_url),
                                 !.token = token,
                                 !.is_configured = TRUE]
        r == save_to_disk(config, apiDisk, cp, wr)
    IN  /\ apiMem' = config
        /\ apiDisk' = r.disk
        /\ last' = ConfigCall("set_api_config", api_url, r.ret)
        /\ prev' = [op |-> last.op, ok |-> last.ret.ok]
        /\ UNCHANGED <<rootExists, files, subdirs, pathUtf8, procs>>

\* clear_api_config, lines 176-191: the singleton is reset, then the file
\* is deleted.
clear_api_config ==
  \E cp \in PathOutcomes, rm \in RemoveOutcomes :
    LET r == delete_from_disk(apiDisk, cp, rm)
    IN  /\ apiMem' = [apiMem EXCEPT !.base_url = <<>>, !.token = "",
                                    !.is_configured = FALSE]
        /\ apiDisk' = r.disk
        /\ last' = ConfigCall("clear_api_config", <<>>, r.ret)
        /\ prev' = [op |-> last.op, ok |-> last.ret.ok]
        /\ UNCHANGED <<rootExists, files, subdirs, pathUtf8, procs>>

\* A new start of the application: the singleton is built (lines 15-23) and
\* run() replaces it by the saved configuration when one loads (301-307).
run ==
  \E cp \in PathOutcomes, readable \in BOOLEAN :
    LET saved == load_from_disk(apiDisk, cp, readable)
    IN  /\ apiMem' = IF saved.some THEN saved.val ELSE DefaultApiConfig
        /\ last' = ConfigCall("run", <<>>, Ok(saved.some))
        /\ prev' = [op |-> last.op, ok |-> last.ret.ok]
        /\ UNCHANGED <<apiDisk, rootExists, files, subdirs, pathUtf8, procs>>

NextConfig == set_api_config \/ clear_api_config \/ run

SpecConfig == Init /\ [][NextConfig]_vars

-----------------------------------------------------------------------------
(* Concurrent callers: the commands are async and run on the runtime's      *)
(* threads, so the calls of two commands into the file system interleave.   *)
(* Each caller is at one call of its command; disk calls fail here only for *)
(* what another caller did, and a fetch yields a body or fails.             *)

\* The URL the concurrent callers resolve, and the bodies a fetch of it can
\* return (the remote content may change between two fetches).
ConcUrl == UrlNoExt
ConcName == CacheFilenameOf[ConcUrl]
ConcBodies == {<<1, 1>>, <<2>>}

\* write_all on a file opened by File::create: the bytes go to offset 0 and
\* replace what is there; what lies beyond them stays.
WriteAt0(old, bytes) == bytes \o SubSeq(old, Len(bytes) + 1, Len(old))

Begin(op) == [IdleProc EXCEPT !.op = op, !.pc = "create_dir_all", !.url = ConcUrl]
Return(pr, ret) == [pr EXCEPT !.pc = "idle", !.ret = ret]

\* A caller enters get_cached_file_path(ConcUrl), line 146.
call_get_cached_file_path(p) ==
  /\ procs[p].pc = "idle"
  /\ procs' = [procs EXCEPT ![p] = Begin("get_cached_file_path")]
  /\ UNCHANGED <<rootExists, files, subdirs, pathUtf8, last, prev, apiMem, apiDisk>>

\* A caller enters clear_image_cache, line 188.
call_clear_image_cache(p) ==
  /\ procs[p].pc = "idle"
  /\ procs' = [procs EXCEPT ![p] = Begin("clear_image_cache")]
  /\ UNCHANGED <<rootExists, files, subdirs, pathUtf8, last, prev, apiMem, apiDisk>>

\* A caller enters get_cache_size, line 205.
call_get_cache_size(p) ==
  /\ procs[p].pc = "idle"
  /\ procs' = [procs EXCEPT ![p] = Begin("get_cache_size")]
  /\ UNCHANGED <<rootExists, files, subdirs, pathUtf8, last, prev, apiMem, apiDisk>>

\* get_cache_dir(&app)?, lines 152, 189, 206.
step_get_cache_dir(p) ==
  /\ procs[p].pc = "create_dir_all"
  /\ \E mk \in MkOutcomes(FS) :
       LET d == get_cache_dir(FS, mk)
       IN  /\ rootExists' = d.fs.root
           /\ procs' = [procs EXCEPT ![p] =
                          IF d.ok THEN [@ EXCEPT !.pc = "exists"]
                          ELSE Return(@, Err(d.err))]
  /\ UNCHANGED <<files, subdirs, pathUtf8, last, prev, apiMem, apiDisk>>

\* cache_path.exists() and the return of the cached path, lines 157-164.
step_cache_path_exists(p) ==
  /\ procs[p].pc = "exists" /\ procs[p].op = "get_cached_file_path"
  /\ procs' = [procs EXCEPT ![p] =
                 IF FileExists(FS, ConcName)
                   THEN [Return(@, PathToStr(JoinPath(ConcName), pathUtf8))
                           EXCEPT !.seen = files[ConcName]]
                   ELSE [@ EXCEPT !.pc = "reqwest_get"]]
  /\ UNCHANGED <<rootExists, files, subdirs, pathUtf8, last, prev, apiMem, apiDisk>>

\* reqwest::get and response.bytes(), lines 120-131; a failure makes
\* get_cached_file_path return the URL (line 175).
step_reqwest_get(p) ==
  /\ procs[p].pc = "reqwest_get"
  /\ \E resp \in {NoResponse} \cup
                 [sent : {TRUE}, status : {200}, read : {TRUE}, body : ConcBodies] :
       procs' = [procs EXCEPT ![p] =
                   IF resp.sent /\ IsSuccess(resp.status) /\ resp.read
                     THEN [@ EXCEPT !.pc = "file_create", !.gets = 1,
                                    !.body = resp.body]
                     ELSE [Return(@, Ok(UrlText(ConcUrl))) EXCEPT !.gets = 1]]
  /\ UNCHANGED <<rootExists, files, subdirs, pathUtf8, last, prev, apiMem, apiDisk>>

\* fs::write, line 133, first half: File::create makes the file or truncates
\* it; it fails when the directory is gone.
step_file_create(p) ==
  /\ procs[p].pc = "file_create"
  /\ files' = IF rootExists THEN (ConcName :> <<>>) @@ files ELSE files
  /\ procs' = [procs EXCEPT ![p] =
                 IF rootExists THEN [@ EXCEPT !.pc = "write_all"]
                 ELSE Return(@, Ok(UrlText(ConcUrl)))]
  /\ UNCHANGED <<rootExists, subdirs, pathUtf8, last, prev, apiMem, apiDisk>>

\* fs::write, second half: write_all through the handle, then the return of
\* the path, lines 167-171.  A handle whose file was removed meanwhile
\* (pc "write_unlinked") writes to a file no path leads to.
step_write_all(p) ==
  /\ procs[p].pc \in {"write_all", "write_unlinked"}
  /\ files' = IF procs[p].pc = "write_all"
                THEN (ConcName :> WriteAt0(files[ConcName], procs[p].body)) @@ files
                ELSE files
  /\ procs' = [procs EXCEPT ![p] =
                 Return(@, DownloadResult([ok |-> TRUE], JoinPath(ConcName),
                                          pathUtf8, ConcUrl))]
  /\ UNCHANGED <<rootExists, subdirs, pathUtf8, last, prev, apiMem, apiDisk>>

\* cache_dir.exists() of clear_image_cache, line 191.
step_clear_exists(p) ==
  /\ procs[p].pc = "exists" /\ procs[p].op = "clear_image_cache"
  /\ procs' = [procs EXCEPT ![p] =
                 IF rootExists THEN [@ EXCEPT !.pc = "remove_dir_all"]
                 ELSE Return(@, Ok("unit"))]
  /\ UNCHANGED <<rootExists, files, subdirs, pathUtf8, last, prev, apiMem, apiDisk>>

\* fs::remove_dir_all, line 192: an error when the directory is gone.  The
\* files other callers hold open are unlinked.
step_remove_dir_all(p) ==
  /\ procs[p].pc = "remove_dir_all"
  /\ LET r == IF rootExists
                THEN remove_dir_all(FS, [ok |-> TRUE, keepFiles |-> {}, keepDirs |-> {}])
                ELSE [ok |-> FALSE, fs |-> FS]
     IN  /\ rootExists' = r.fs.root
         /\ files' = r.fs.files
         /\ subdirs' = r.fs.subdirs
         /\ procs' = [q \in Procs |->
                        IF q = p
                          THEN IF r.ok THEN [procs[q] EXCEPT !.pc = "recreate"]
                               ELSE Return(procs[q], Err("remove_failed"))
                        ELSE IF r.ok /\ procs[q].pc = "write_all"
                          THEN [procs[q] EXCEPT !.pc = "write_unlinked"]
                        ELSE procs[q]]
  /\ UNCHANGED <<pathUtf8, last, prev, apiMem, apiDisk>>

\* fs::create_dir_all, line 195, and the return of line 200.
step_recreate(p) ==
  /\ procs[p].pc = "recreate"
  /\ \E mk \in MkOutcomes(FS) :
       LET c == create_dir_all(FS, mk)
       IN  /\ rootExists' = c.fs.root
           /\ procs' = [procs EXCEPT ![p] =
                          Return(@, IF c.ok THEN Ok("unit") ELSE Err("recreate_failed"))]
  /\ UNCHANGED <<files, subdirs, pathUtf8, last, prev, apiMem, apiDisk>>

\* !cache_dir.exists() of get_cache_size, lines 208-210.
step_size_exists(p) ==
  /\ procs[p].pc = "exists" /\ procs[p].op = "get_cache_size"
  /\ procs' = [procs EXCEPT ![p] =
                 IF rootExists THEN [@ EXCEPT !.pc = "read_dir"]
                 ELSE Return(@, Ok(0))]
  /\ UNCHANGED <<rootExists, files, subdirs, pathUtf8, last, prev, apiMem, apiDisk>>

\* fs::read_dir and the loop, lines 214-224: read_dir fails when the
\* directory is gone, and the total stays 0.
step_read_dir(p) ==
  /\ procs[p].pc = "read_dir"
  /\ procs' = [procs EXCEPT ![p] =
                 Return(@, Ok(IF rootExists THEN SumSizes(DirEntries(FS), {}) ELSE 0))]
  /\ UNCHANGED <<rootExists, files, subdirs, pathUtf8, last, prev, apiMem, apiDisk>>

NextConc ==
  \E p \in Procs :
    \/ call_get_cached_file_path(p)
    \/ call_clear_image_cache(p)
    \/ call_get_cache_size(p)
    \/ step_get_cache_dir(p)
    \/ step_cache_path_exists(p)
    \/ step_reqwest_get(p)
    \/ step_file_create(p)
    \/ step_write_all(p)
    \/ step_clear_exists(p)
    \/ step_remove_dir_all(p)
    \/ step_recreate(p)
    \/ step_size_exists(p)
    \/ step_read_dir(p)

SpecConc == Init /\ [][NextConc]_vars

-----------------------------------------------------------------------------
(* What the claims speak of *)

HttpUrls == {u \in Urls : IsHttpOf[u]}

\* Whether a command made the call with the result.
Made(trace, name, res) == \E i \in 1..Len(trace) : trace[i] = Call(name, res)

\* The number of fetches (HTTP GETs) among the calls a command made.
NumGets(trace) == Cardinality({i \in 1..Len(trace) : trace[i].call = "GET"})

\* The value get_cached_file_path returns for the cache path of url.
PathOf(url) == Ok(PathText(JoinPath(CacheFilenameOf[url])))

IsResolve(l) == l.op = "get_cached_file_path"
IsClear(l) == l.op = "clear_image_cache"
IsSize(l) == l.op = "get_cache_size"

\* C1 as stated: from an empty cache, the first resolve(u) of an http(s) URL
\* whose fetch succeeds performs exactly one fetch, leaves a file at the
\* cache path of u and returns that path.
C1_Original ==
  [][\A u \in HttpUrls :
       (DOMAIN files = {} /\ IsResolve(last') /\ last'.url = u /\ last'.fetch = "ok")
         => /\ NumGets(last'.trace) = 1
            /\ rootExists' /\ CacheFilenameOf[u] \in DOMAIN files'
            /\ last'.ret = PathOf(u)]_vars

\* C1 amended: a resolve(u) of an http(s) URL u with no file cached for u
\* (an empty cache in particular), whose fetch and whose write of the cache
\* file both succeed and whose cache path is valid UTF-8, performs exactly
\* one fetch, leaves the fetched bytes at the cache path of u and returns that
\* path; the file stays until a clear_image_cache; and while it is there a
\* resolve(u) performs no fetch and returns the same path.
C1_FirstFetchesSecondHits ==
  [][\A u \in HttpUrls :
       LET name == CacheFilenameOf[u]
       IN  /\ (IsResolve(last') /\ last'.url = u /\ name \notin DOMAIN files
                 /\ last'.fetch = "ok" /\ Made(last'.trace, "write", TRUE) /\ pathUtf8)
                => /\ NumGets(last'.trace) = 1
                   /\ rootExists' /\ name \in DOMAIN files'
                   /\ files'[name] = last'.body
                   /\ last'.ret = PathOf(u)
           /\ (name \in DOMAIN files /\ ~IsClear(last'))
                => (rootExists' /\ name \in DOMAIN files')
           /\ (IsResolve(last') /\ last'.url = u /\ name \in DOMAIN files /\ pathUtf8)
                => (NumGets(last'.trace) = 0 /\ last'.ret = PathOf(u))]_vars

\* A resolve of an http(s) URL answered from the cache right after a
\* resolve that returned Ok: no fetch, the path returned.
C1_Witness ==
  /\ IsResolve(last) /\ last.url \in HttpUrls
  /\ prev = [op |-> "get_cached_file_path", ok |-> TRUE]
  /\ CacheFilenameOf[last.url] \in DOMAIN files
  /\ files[CacheFilenameOf[last.url]] # <<>>
  /\ NumGets(last.trace) = 0
  /\ last.ret = PathOf(last.url)

\* The scheme test of the claims, on the characters of the input.
HasHttpScheme(url) == StartsWith(url, HttpPrefix) \/ StartsWith(url, HttpsPrefix)

\* The cache directory holds nothing.
CacheEmpty == DOMAIN files = {} /\ subdirs = {}

\* C2: a resolve(u) of an uncached http(s) URL whose fetch fails (transport
\* error, non-success status, unreadable body) or whose write of the cache
\* file fails returns Ok(u), the original URL: not an error, not a path.
C2_FailureReturnsOriginalUrl ==
  (/\ IsResolve(last)
   /\ \/ last.fetch \in {"transport_error", "http_status", "body_error"}
      \/ Made(last.trace, "write", FALSE))
    => last.ret = Ok(UrlText(last.url))

\* A resolve whose fetch succeeded and whose write failed, which returned the
\* URL.
C2_Witness ==
  /\ IsResolve(last) /\ last.fetch = "ok" /\ Made(last.trace, "write", FALSE)
  /\ last.ret = Ok(UrlText(last.url))

\* C3 as stated: resolve never returns an error; the caller receives the
\* cache path or the original input, whatever the state of the file system.
C3_ResolveNeverErrs ==
  IsResolve(last)
    => /\ last.ret.ok
       /\ last.ret.val \in {UrlText(last.url), PathText(JoinPath(CacheFilenameOf[last.url]))}

\* C4: for an input that starts with neither http:// nor https://, resolve
\* returns the input unchanged, makes no call into the file system or the
\* network, and leaves the cache directory as it was (not created).
C4_NonHttpShortCircuits ==
  [][(IsResolve(last') /\ ~HasHttpScheme(last'.url))
       => /\ last'.ret = Ok(UrlText(last'.url))
          /\ last'.trace = <<>>
          /\ UNCHANGED <<rootExists, files, subdirs>>]_vars

\* A resolve of a non-http input has returned and the cache directory still
\* does not exist.
C4_Witness ==
  /\ IsResolve(last) /\ ~HasHttpScheme(last.url)
  /\ last.ret = Ok(UrlText(last.url))
  /\ ~rootExists

\* C5: right after a clear_image_cache that returned Ok the cache directory
\* exists and is empty, a get_cache_size issued next returns Ok(0), and a
\* resolve that writes a cache file into the directory is possible.
C5_ClearThenSizeIsZero ==
  [][(IsClear(last) /\ last.ret.ok)
       => /\ rootExists /\ CacheEmpty
          /\ IsSize(last') => last'.ret = Ok(0)
          /\ ENABLED (get_cached_file_path /\ Made(last'.trace, "write", TRUE))]_vars

\* A get_cache_size that returned 0 right after a clear_image_cache that
\* removed the directory, re-created it and returned Ok.
C5_Witness ==
  /\ IsSize(last) /\ last.ret = Ok(0)
  /\ prev = [op |-> "clear_image_cache", ok |-> TRUE]
  /\ rootExists /\ CacheEmpty

\* C6 as stated: after every invocation of clear_image_cache, whatever it
\* returned, the cache directory exists and is empty.
C6_Original == IsClear(last) => (rootExists /\ CacheEmpty)

\* C6 amended: after a clear_image_cache that returns Ok the cache directory
\* exists and is empty.  After one that returns an error the directory is
\* either absent (it could not be created, or it was removed and could not be
\* re-created) or there with no entry it did not hold before (the removal
\* failed, entries may remain).
C6_ClearOutcomes ==
  [][IsClear(last')
       => /\ last'.ret.ok => (rootExists' /\ CacheEmpty')
          /\ ~last'.ret.ok
               => \/ ~rootExists' /\ CacheEmpty'
                  \/ /\ rootExists'
                     /\ DOMAIN files' \subseteq DOMAIN files
                     /\ \A k \in DOMAIN files' : files'[k] = files[k]
                     /\ subdirs' \subseteq subdirs]_vars

\* A clear_image_cache that removed the directory, failed to re-create it and
\* returned an error: the directory is absent.
C6_Witness ==
  /\ IsClear(last) /\ ~last.ret.ok
  /\ Made(last.trace, "remove_dir_all", TRUE)
  /\ Made(last.trace, "create_dir_all", FALSE)
  /\ ~rootExists

\* C7: when the removal or the (re-)creation of the cache directory fails,
\* clear_image_cache returns an error; and when it returns Ok no entry that
\* was in the directory before the call is still there.
C7_ClearDoesNotDegrade ==
  [][IsClear(last')
       => /\ (\/ Made(last'.trace, "remove_dir_all", FALSE)
              \/ Made(last'.trace, "create_dir_all", FALSE)) => ~last'.ret.ok
          /\ last'.ret.ok
               => /\ DOMAIN files' \cap DOMAIN files = {}
                  /\ subdirs' \cap subdirs = {}]_vars

\* A clear_image_cache whose removal failed with a file left behind: it
\* returned an error.
C7_Witness ==
  /\ IsClear(last) /\ Made(last.trace, "remove_dir_all", FALSE)
  /\ DOMAIN files # {}
  /\ ~last.ret.ok

\* The sum of the lengths of the files named in S.
RECURSIVE TotalLen(_)
TotalLen(S) ==
  IF S = {} THEN 0
  ELSE LET k == CHOOSE x \in S : TRUE IN Len(files[k]) + TotalLen(S \ {k})

\* The files whose metadata the last get_cache_size could read.
ReadableFiles ==
  {k \in DOMAIN files :
     \A e \in last.unreadable : e.id # <<"file", k>>}

\* C8 as stated: in every state get_cache_size returns exactly the sum of
\* the sizes of the regular files directly inside the cache directory.
C8_Original == IsSize(last) => last.ret = Ok(TotalLen(DOMAIN files))

\* C8 amended: a get_cache_size that returns Ok after listing the directory
\* returns the sum of the sizes of the regular files directly inside the cache
\* directory whose metadata could be read (exactly the sum over all of them
\* when every entry was readable); subdirectories contribute nothing.  It
\* returns 0 when the listing fails and an error when the directory cannot be
\* created.
C8_SizeIsSumOfReadableFiles ==
  IsSize(last)
    => /\ Made(last.trace, "create_dir_all", FALSE) => ~last.ret.ok
       /\ Made(last.trace, "read_dir", FALSE) => last.ret = Ok(0)
       /\ Made(last.trace, "read_dir", TRUE) => last.ret = Ok(TotalLen(ReadableFiles))

\* A get_cache_size over a directory with a subdirectory and two files, all
\* readable, that returned the (non-zero) sum of the two file sizes.
C8_Witness ==
  /\ IsSize(last) /\ Made(last.trace, "read_dir", TRUE)
  /\ last.unreadable = {}
  /\ subdirs # {} /\ Cardinality(DOMAIN files) = 2
  /\ last.ret.ok /\ last.ret.val = TotalLen(DOMAIN files) /\ last.ret.val > 0

\* C9 as stated: get_cache_size never returns an error, also when the cache
\* directory is absent and cannot be created (it returns 0 then).
C9_SizeNeverErrs ==
  IsSize(last)
    => /\ last.ret.ok
       /\ ~rootExists => last.ret = Ok(0)

\* C10 as stated: a cache entry of u comes into existence only through a
\* resolve(u) whose fetch succeeded, an entry disappears only through
\* clear_image_cache, and a resolve whose fetch or whose write failed leaves
\* no entry of its URL behind.
C10_EntryLifecycle ==
  [][\A u \in HttpUrls :
       LET name == CacheFilenameOf[u]
       IN  /\ (name \notin DOMAIN files /\ name \in DOMAIN files')
                => (IsResolve(last') /\ last'.url = u /\ last'.fetch = "ok")
           /\ (name \in DOMAIN files /\ name \notin DOMAIN files')
                => IsClear(last')
           /\ (/\ IsResolve(last') /\ last'.url = u /\ name \notin DOMAIN files
               /\ \/ last'.fetch \in {"transport_error", "http_status", "body_error"}
                  \/ Made(last'.trace, "write", FALSE))
                => name \notin DOMAIN files']_vars

\* C14: a resolve(u) whose response has a non-success status creates no file
\* at the cache path of u and leaves every cache entry as it was; the
\* resolve(u) that follows it is a miss again and fetches anew, as is every
\* resolve(u) that finds the directory and no file of u.
C14_ErrorStatusCachesNothing ==
  [][\A u \in HttpUrls :
       LET name == CacheFilenameOf[u]
       IN  /\ (IsResolve(last') /\ last'.url = u /\ last'.fetch = "http_status")
                => /\ name \notin DOMAIN files'
                   /\ files' = files /\ subdirs' = subdirs
           /\ (/\ IsResolve(last) /\ last.url = u /\ last.fetch = "http_status"
               /\ IsResolve(last') /\ last'.url = u)
                => /\ Made(last'.trace, "exists", FALSE)
                   /\ NumGets(last'.trace) = 1
           /\ (/\ IsResolve(last') /\ last'.url = u /\ name \notin DOMAIN files
               /\ Made(last'.trace, "create_dir_all", TRUE))
                => NumGets(last'.trace) = 1]_vars

\* A resolve answered with a non-success status while another URL's file is
\* cached: no file of its URL, the original URL returned.
C14_Witness ==
  /\ IsResolve(last) /\ last.fetch = "http_status"
  /\ CacheFilenameOf[last.url] \notin DOMAIN files
  /\ DOMAIN files # {}
  /\ last.ret = Ok(UrlText(last.url))

NumWrites(trace) == Cardinality({i \in 1..Len(trace) : trace[i].call = "write"})

\* The four outcomes of resolve the state machine of the design names.
ShortCircuit(l) == l.trace = <<>> /\ l.ret = Ok(UrlText(l.url))
CacheHit(l) ==
  Made(l.trace, "exists", TRUE) /\ NumGets(l.trace) = 0 /\ l.ret = PathOf(l.url)
FetchedAndWritten(l) ==
  l.fetch = "ok" /\ Made(l.trace, "write", TRUE) /\ l.ret = PathOf(l.url)
Fallback(l) ==
  /\ l.fetch # "none"
  /\ l.fetch # "ok" \/ Made(l.trace, "write", FALSE)
  /\ l.ret = Ok(UrlText(l.url))

\* The outcome the design does not name: an error handed to the caller,
\* when the directory cannot be created (nothing fetched) or when the cache
\* path is not representable as text.
ErrorReturned(l) ==
  /\ ~l.ret.ok
  /\ \/ Made(l.trace, "create_dir_all", FALSE) /\ NumGets(l.trace) = 0
     \/ ~pathUtf8 /\ (Made(l.trace, "exists", TRUE) \/ Made(l.trace, "write", TRUE))

IsDerive(l) == l.op = "get_cache_filename"

\* The final path segment of a URL with its query string stripped.
FinalSegment(url) == RSplitFirst(SplitFirst(url, "?"), "/")

\* C12 as stated: the extension is that of the trailing dot-suffix of the
\* final path segment of the query-stripped URL, lower-cased, when the
\* allow-list has it; it is "bin" when the segment has no dot-suffix or the
\* suffix is not in the allow-list.
C12_ExtensionOfDotSuffix ==
  IsDerive(last)
    => LET seg == FinalSegment(last.url)
           suffix == ToLowercase(RSplitFirst(seg, "."))
       IN  last.ret.val.ext =
             IF Positions(seg, ".") = {} \/ MatchExtension(suffix) = ""
               THEN "bin"
               ELSE MatchExtension(suffix)

C19_MemoryMirrorsDisk ==
  apiMem.is_configured
    <=> /\ apiDisk.kind = "config"
        /\ apiDisk.config.base_url = apiMem.base_url
        /\ apiDisk.config.token = apiMem.token

\* A caller that has returned from a resolve in which it fetched a body and
\* wrote it to the cache path.
FetchedAndWroteConc(p) ==
  /\ procs[p].op = "get_cached_file_path" /\ procs[p].pc = "idle"
  /\ procs[p].gets = 1 /\ procs[p].body \in ConcBodies
  /\ procs[p].ret # Ok(UrlText(ConcUrl))

\* A caller that has returned from a resolve through the cache-hit branch.
HitConc(p) ==
  /\ procs[p].op = "get_cached_file_path" /\ procs[p].pc = "idle"
  /\ procs[p].gets = 0
  /\ procs[p].ret = Ok(PathText(JoinPath(ConcName)))

\* C11 as stated: when two resolve calls of the same uncached URL both fetch
\* and both write the cache path, then after both have returned the file at
\* that path holds the complete body of one of the two fetches, never a
\* mixture of the two, and both calls returned that path.
C11_NoMixtureOfBodies ==
  (pathUtf8 /\ rootExists /\ \A p \in Procs : FetchedAndWroteConc(p))
    => /\ ConcName \in DOMAIN files
       /\ \E p \in Procs : files[ConcName] = procs[p].body
       /\ \A p \in Procs : procs[p].ret = Ok(PathText(JoinPath(ConcName)))

\* C16 as stated: under every interleaving of concurrent calls, at the step
\* at which a clear_image_cache call returns success the cache root
\* directory exists.
C16_ClearSuccessRootExists ==
  [][\A p \in Procs :
       (/\ procs[p].op = "clear_image_cache" /\ procs[p].pc # "idle"
        /\ procs'[p].pc = "idle" /\ procs'[p].ret.ok)
         => rootExists']_vars

\* C17 as stated: a resolve that returns through the cache-hit branch found
\* at the cache path the complete body of a successful fetch, also while
\* another resolve is writing that file.
C17_HitSeesCompleteBody ==
  \A p \in Procs : HitConc(p) => procs[p].seen \in ConcBodies

====
